---- MODULE Spec2Model ----
(***************************************************************************)
(* Model of the persistent application state of wuw (Word under water):    *)
(* MainApp (src/wuw/gui/mainapp.py) and BaseWindow / MainWindow            *)
(* (src/wuw/gui/mainwindow.py).  The state is the settings file and its    *)
(* backups on disk, and the in-memory state of one process at a time: the  *)
(* list of main windows, the window instance counter, the recent-files     *)
(* list and the settings-saved flag.                                       *)
(***************************************************************************)
EXTENDS Integers, Sequences, FiniteSets, TLC

VARIABLES
    pc,             \* position of the process: new, constructed, running, exited, crashed
    DEBUGGING,      \* info.DEBUGGING, read from the command line at import
    launches,       \* number of processes started so far
    file,           \* content of the settings file (or absent)
    backups,        \* content of <settingsFile>.v<version>.backup, per version
    mainWindows,    \* MainApp._mainWindows
    numInstances,   \* BaseWindow.__numInstances
    settingsSaved,  \* MainApp._settingsSaved
    recentFiles,    \* MainApp._recentFiles
    settingsFile,   \* MainApp._settingsFile: the path, or None
    loopExit,       \* the Qt event loop has been asked to exit
    exc,            \* exception raised to the caller by the last operation
    lastOp,         \* name of the last operation executed
    saveResult,     \* what the last operation did to the settings file
    marshalled,     \* the window list the last operation marshalled for saving
    writes,         \* times this process opened the settings file for writing
    repeatedSave,   \* the last two operations both wrote, from the same window list
    args,           \* a method or function called on its own: its name and arguments
    result          \* what that call returned or raised (empty before the call)

vars == <<pc, DEBUGGING, launches, file, backups, mainWindows, numInstances,
          settingsSaved, recentFiles, settingsFile, loopExit, exc, lastOp, saveResult,
          marshalled, writes, repeatedSave, args, result>>

----------------------------------------------------------------------------
(* Bounds of the model *)

MaxInstances == 2       \* windows constructed per process
MaxLaunches == 2        \* processes started one after the other
MaxWrites == 2          \* writes of the settings file per process
MaxManyWindows == 11    \* windows of the sessions with many windows

----------------------------------------------------------------------------
(* Program constants (src/wuw/be/info.py, src/wuw/gui/mainwindow.py) *)

VERSION == "0.1.0"
PROJECT_NAME == "Word under water"
DEFAULT_VERSION == "0.0.1"
DEFAULT_FILE_DIR == "~"
DEFAULT_GEOM == "g0"
DEFAULT_STATE == "s0"
maxRecentFiles == 10

(* Optional values: a dict key that may be missing, a path that may not exist *)
None == <<>>
Some(v) == <<v>>
IsSome(o) == o # <<>>
Val(o) == o[1]
Get(o, default) == IF IsSome(o) THEN Val(o) ELSE default

----------------------------------------------------------------------------
(* Strings as character sequences: window keys are formatted, tested with   *)
(* startswith and sorted by json.dumps(sort_keys=True).                     *)

DigitChars == <<"0", "1", "2", "3", "4", "5", "6", "7", "8", "9">>

RECURSIVE FormatInt(_)
FormatInt(n) ==
    IF n < 10 THEN <<DigitChars[n + 1]>>
    ELSE FormatInt(n \div 10) \o <<DigitChars[(n % 10) + 1]>>

WinPrefix == <<"w", "i", "n", "-">>

StartsWith(s, p) == Len(s) >= Len(p) /\ SubSeq(s, 1, Len(p)) = p

WinKey(winNr) == WinPrefix \o FormatInt(winNr)

Ord(c) ==
    CASE c = "-" -> 45
      [] c = "0" -> 48 [] c = "1" -> 49 [] c = "2" -> 50 [] c = "3" -> 51
      [] c = "4" -> 52 [] c = "5" -> 53 [] c = "6" -> 54 [] c = "7" -> 55
      [] c = "8" -> 56 [] c = "9" -> 57
      [] c = "f" -> 102 [] c = "i" -> 105 [] c = "n" -> 110 [] c = "o" -> 111
      [] c = "w" -> 119

RECURSIVE StrLess(_, _)
StrLess(a, b) ==
    IF a = <<>> THEN b # <<>>
    ELSE IF b = <<>> THEN FALSE
    ELSE IF Ord(Head(a)) # Ord(Head(b)) THEN Ord(Head(a)) < Ord(Head(b))
    ELSE StrLess(Tail(a), Tail(b))

----------------------------------------------------------------------------
(* base64 of the opaque geometry / state blobs *)

Geoms == {"g0", "g1"}
States == {"s0", "s1"}
Dirs == {"~", "/docs"}

b64encode(blob) ==
    CASE blob = "g0" -> "ZzA="
      [] blob = "g1" -> "ZzE="
      [] blob = "s0" -> "czA="
      [] blob = "s1" -> "czE="

B64Texts == {"ZzA=", "ZzE=", "czA=", "czE="}

b64decodeOk(text) == text \in B64Texts

b64decode(text) ==
    CASE text = "ZzA=" -> "g0"
      [] text = "ZzE=" -> "g1"
      [] text = "czA=" -> "s0"
      [] text = "czE=" -> "s1"

----------------------------------------------------------------------------
(* The settings file: absent, or a text that is empty, unparsable, or the   *)
(* JSON text of an object.  A JSON object is a record of optional keys; the *)
(* windows mapping keeps the order of its entries (a Python dict).          *)

EmptyObj == [program |-> None, version |-> None, recent_files |-> None, windows |-> None]

Absent == [kind |-> "absent", obj |-> EmptyObj]
EmptyText == [kind |-> "empty", obj |-> EmptyObj]
CorruptText == [kind |-> "corrupt", obj |-> EmptyObj]
JsonText(obj) == [kind |-> "json", obj |-> obj]

EmptyLayout == [winGeom |-> None, winState |-> None]
EmptyWinCfg == [layout |-> None, fileDialogDir |-> None]

(* bool(cfg) of a dict: false exactly when it has no key *)
Truthy(obj) == obj # EmptyObj
TruthyWinCfg(cfg) == cfg # EmptyWinCfg

(* json.dumps(settings, sort_keys=True, indent=4): the entries of the       *)
(* windows mapping are written in the order of their keys as strings.       *)
RECURSIVE InsertSorted(_, _)
InsertSorted(e, sorted) ==
    IF sorted = <<>> THEN <<e>>
    ELSE IF StrLess(e.key, Head(sorted).key) THEN <<e>> \o sorted
    ELSE <<Head(sorted)>> \o InsertSorted(e, Tail(sorted))

RECURSIVE SortEntries(_)
SortEntries(entries) ==
    IF entries = <<>> THEN <<>>
    ELSE InsertSorted(Head(entries), SortEntries(Tail(entries)))

json_dumps(settings) ==
    JsonText([settings EXCEPT !.windows =
                 IF IsSome(settings.windows)
                 THEN Some(SortEntries(Val(settings.windows)))
                 ELSE None])

(* json.loads(jsonStr): defined on JSON text only, keeps the file's order *)
json_loadsOk(text) == text.kind = "json"
json_loads(text) == text.obj

----------------------------------------------------------------------------
(* BaseWindow / MainWindow (src/wuw/gui/mainwindow.py) *)

NewMainWindow(instanceNr) ==
    [windowNumber |-> instanceNr, geom |-> DEFAULT_GEOM, state |-> DEFAULT_STATE,
     fileDialogDir |-> DEFAULT_FILE_DIR]

BaseWindow_marshall(w) ==
    [layout |-> Some([winGeom |-> Some(b64encode(w.geom)),
                      winState |-> Some(b64encode(w.state))]),
     fileDialogDir |-> None]

MainWindow_marshall(w) ==
    [BaseWindow_marshall(w) EXCEPT !.fileDialogDir = Some(w.fileDialogDir)]

(* Faulty variant of BaseWindow.unmarshall: the geometry is not restored *)
BaseWindow_unmarshall_noGeometry(w, cfg) ==
    LET layoutCfg == Get(cfg.layout, EmptyLayout)
        geomBad == IsSome(layoutCfg.winGeom) /\ ~b64decodeOk(Val(layoutCfg.winGeom))
        stateBad == IsSome(layoutCfg.winState) /\ ~b64decodeOk(Val(layoutCfg.winState))
        w2 == IF IsSome(layoutCfg.winState) /\ ~stateBad
              THEN [w EXCEPT !.state = b64decode(Val(layoutCfg.winState))]
              ELSE w
    IN  IF geomBad THEN [win |-> w, exc |-> "binascii.Error"]
        ELSE IF stateBad THEN [win |-> w, exc |-> "binascii.Error"]
        ELSE [win |-> w2, exc |-> "none"]

(* The unmarshall operators return the window and the exception raised *)
BaseWindow_unmarshall(w, cfg) ==
    LET layoutCfg == Get(cfg.layout, EmptyLayout)
        geomBad == IsSome(layoutCfg.winGeom) /\ ~b64decodeOk(Val(layoutCfg.winGeom))
        w1 == IF IsSome(layoutCfg.winGeom) /\ ~geomBad
              THEN [w EXCEPT !.geom = b64decode(Val(layoutCfg.winGeom))]
              ELSE w
        stateBad == IsSome(layoutCfg.winState) /\ ~b64decodeOk(Val(layoutCfg.winState))
        w2 == IF IsSome(layoutCfg.winState) /\ ~stateBad
              THEN [w1 EXCEPT !.state = b64decode(Val(layoutCfg.winState))]
              ELSE w1
    IN  IF geomBad THEN [win |-> w, exc |-> "binascii.Error"]
        ELSE IF stateBad THEN [win |-> w1, exc |-> "binascii.Error"]
        ELSE [win |-> w2, exc |-> "none"]

MainWindow_unmarshall(w, cfg) ==
    LET r == BaseWindow_unmarshall(w, cfg)
    IN  IF r.exc # "none" THEN r
        ELSE [win |-> [r.win EXCEPT !.fileDialogDir =
                          Get(cfg.fileDialogDir, DEFAULT_FILE_DIR)],
              exc |-> "none"]

----------------------------------------------------------------------------
(* MainApp (src/wuw/gui/mainapp.py).  The methods are operators on the      *)
(* record st of what they read and write; st.exc is the exception that      *)
(* leaves the method ("none" when it returns).                              *)

Versions == {"0.0.1", "0.0.9", "0.1.0"}
SettingsPath == "settings.json"

(* What json.dumps, open and write do in one call of saveSettings *)
IoOutcomes == {"ok", "dumpsFails", "openFails", "writeFailsEmpty", "writeFailsPartial"}

RemoveAt(seq, i) == SubSeq(seq, 1, i - 1) \o SubSeq(seq, i + 1, Len(seq))

(* Faulty variant of makeConfigBackup: the backup is named after the running *)
(* version instead of the version found in the file.                        *)
makeConfigBackup_newVersionName(st, cfg, copyOk) ==
    IF ~Truthy(cfg) THEN st
    ELSE LET cfgVersion == Get(cfg.version, DEFAULT_VERSION)
         IN  IF cfgVersion # VERSION
             THEN IF copyOk
                  THEN [st EXCEPT !.backups[VERSION] = st.file]
                  ELSE [st EXCEPT !.exc = "OSError"]
             ELSE st

(* Faulty variant of makeConfigBackup: a record without _version is taken   *)
(* to be of the running version.                                            *)
makeConfigBackup_defaultCurrent(st, cfg, copyOk) ==
    IF ~Truthy(cfg) THEN st
    ELSE LET cfgVersion == Get(cfg.version, VERSION)
         IN  IF cfgVersion # VERSION
             THEN IF copyOk
                  THEN [st EXCEPT !.backups[cfgVersion] = st.file]
                  ELSE [st EXCEPT !.exc = "OSError"]
             ELSE st

(* shutil.copy2(self._settingsFile, cfgBackup) under the version test *)
makeConfigBackup(st, cfg, copyOk) ==
    IF ~Truthy(cfg) THEN st
    ELSE LET cfgVersion == Get(cfg.version, DEFAULT_VERSION)
         IN  IF cfgVersion # VERSION
             THEN IF copyOk
                  THEN [st EXCEPT !.backups[cfgVersion] = st.file]
                  ELSE [st EXCEPT !.exc = "OSError"]
             ELSE st

(* Faulty variant of marshall: the key is the window's instance number *)
marshall_byWindowNumber(st) ==
    [program |-> Some(PROJECT_NAME),
     version |-> Some(VERSION),
     recent_files |-> Some(st.recent),
     windows |-> Some([i \in 1..Len(st.wins) |->
                         [key |-> WinKey(st.wins[i].windowNumber),
                          cfg |-> MainWindow_marshall(st.wins[i])]])]

marshall(st) ==
    [program |-> Some(PROJECT_NAME),
     version |-> Some(VERSION),
     recent_files |-> Some(st.recent),
     windows |-> Some([i \in 1..Len(st.wins) |->
                         [key |-> WinKey(i - 1), cfg |-> MainWindow_marshall(st.wins[i])]])]

(* Faulty variant of addNewMainWindow: the window is numbered by the length *)
(* of the live list.                                                        *)
addNewMainWindow_numberFromList(st, cfg) ==
    LET mainWindow == NewMainWindow(Len(st.wins))
        s1 == [st EXCEPT !.wins = Append(st.wins, mainWindow), !.num = st.num + 1]
        r == MainWindow_unmarshall(mainWindow, Val(cfg))
    IN  IF IsSome(cfg) /\ TruthyWinCfg(Val(cfg))
        THEN [s1 EXCEPT !.wins[Len(s1.wins)] = r.win, !.exc = r.exc]
        ELSE s1

(* MainWindow(self) takes its number and ends in updateWindowTitle, where   *)
(* os.path.basename(mainApplication.settingsFile) raises TypeError on None, *)
(* before the window is appended to the list.                               *)
addNewMainWindow(st, cfg) ==
    LET mainWindow == NewMainWindow(st.num)
        s1 == [st EXCEPT !.wins = Append(st.wins, mainWindow), !.num = st.num + 1]
        r == MainWindow_unmarshall(mainWindow, Val(cfg))
    IN  IF ~IsSome(st.settingsFile)
        THEN [st EXCEPT !.num = st.num + 1, !.exc = "TypeError"]
        ELSE IF IsSome(cfg) /\ TruthyWinCfg(Val(cfg))
        THEN [s1 EXCEPT !.wins[Len(s1.wins)] = r.win, !.exc = r.exc]
        ELSE s1

RECURSIVE unmarshallWindows(_, _)
unmarshallWindows(st, entries) ==
    IF entries = <<>> THEN st
    ELSE IF ~StartsWith(Head(entries).key, WinPrefix)
         THEN [st EXCEPT !.exc = "AssertionError"]
         ELSE LET s1 == addNewMainWindow(st, Some(Head(entries).cfg))
              IN  IF s1.exc # "none" THEN s1
                  ELSE unmarshallWindows(s1, Tail(entries))

(* Faulty variant of unmarshall: no default window is created *)
unmarshall_noDefaultWindow(st, cfg) ==
    unmarshallWindows([st EXCEPT !.recent = Get(cfg.recent_files, <<>>)],
                      Get(cfg.windows, <<>>))

unmarshall(st, cfg) ==
    LET s1 == [st EXCEPT !.recent = Get(cfg.recent_files, <<>>)]
        s2 == unmarshallWindows(s1, Get(cfg.windows, <<>>))
    IN  IF s2.exc # "none" THEN s2
        ELSE IF Len(s2.wins) = 0 THEN addNewMainWindow(s2, None)
        ELSE s2

(* Faulty variant of saveSettings: the error is swallowed in debug mode too *)
saveSettings_swallowInDebug(st, io) ==
    LET jsonStr == json_dumps(marshall(st))
        s0 == [st EXCEPT !.marsh = st.wins]
        s1 ==
          IF ~IsSome(st.settingsFile) THEN [st EXCEPT !.res = "noSettingsFile"]
          ELSE CASE io = "ok" ->
                      [s0 EXCEPT !.file = jsonStr, !.writes = st.writes + 1,
                                 !.res = "written"]
                 [] io = "dumpsFails" -> [s0 EXCEPT !.res = "dumpsFailed"]
                 [] io = "openFails" -> [s0 EXCEPT !.res = "writeFailed"]
                 [] io = "writeFailsEmpty" ->
                      [s0 EXCEPT !.file = EmptyText, !.writes = st.writes + 1,
                                 !.res = "writeFailed"]
                 [] io = "writeFailsPartial" ->
                      [s0 EXCEPT !.file = CorruptText, !.writes = st.writes + 1,
                                 !.res = "writeFailed"]
    IN  [s1 EXCEPT !.saved = TRUE]

(* Faulty variant of saveSettings: the file is opened for writing before    *)
(* the record is serialized.                                                *)
saveSettings_openBeforeDumps(st, io) ==
    LET jsonStr == json_dumps(marshall(st))
        Raised(e) == IF st.debugging THEN e ELSE "none"
        s0 == [st EXCEPT !.marsh = st.wins]
        s1 ==
          IF ~IsSome(st.settingsFile) THEN [st EXCEPT !.res = "noSettingsFile"]
          ELSE CASE io = "ok" ->
                      [s0 EXCEPT !.file = jsonStr, !.writes = st.writes + 1,
                                 !.res = "written"]
                 [] io = "dumpsFails" ->
                      [s0 EXCEPT !.file = EmptyText, !.writes = st.writes + 1,
                                 !.res = "dumpsFailed", !.exc = Raised("TypeError")]
                 [] io = "openFails" ->
                      [s0 EXCEPT !.res = "writeFailed", !.exc = Raised("OSError")]
                 [] io = "writeFailsEmpty" ->
                      [s0 EXCEPT !.file = EmptyText, !.writes = st.writes + 1,
                                 !.res = "writeFailed", !.exc = Raised("OSError")]
                 [] io = "writeFailsPartial" ->
                      [s0 EXCEPT !.file = CorruptText, !.writes = st.writes + 1,
                                 !.res = "writeFailed", !.exc = Raised("OSError")]
    IN  [s1 EXCEPT !.saved = TRUE]

(* Faulty variant of saveSettings: the file is opened with mode 'a', so the *)
(* text is written behind what the file holds.                              *)
saveSettings_appendMode(st, io) ==
    LET jsonStr == json_dumps(marshall(st))
        Raised(e) == IF st.debugging THEN e ELSE "none"
        s0 == [st EXCEPT !.marsh = st.wins]
        s1 ==
          IF ~IsSome(st.settingsFile) THEN [st EXCEPT !.res = "noSettingsFile"]
          ELSE CASE io = "ok" ->
                      [s0 EXCEPT !.file = IF st.file \in {Absent, EmptyText}
                                          THEN jsonStr ELSE CorruptText,
                                 !.writes = st.writes + 1, !.res = "written"]
                 [] io = "dumpsFails" ->
                      [s0 EXCEPT !.res = "dumpsFailed", !.exc = Raised("TypeError")]
                 [] io = "openFails" ->
                      [s0 EXCEPT !.res = "writeFailed", !.exc = Raised("OSError")]
                 [] io = "writeFailsEmpty" ->
                      [s0 EXCEPT !.writes = st.writes + 1,
                                 !.res = "writeFailed", !.exc = Raised("OSError")]
                 [] io = "writeFailsPartial" ->
                      [s0 EXCEPT !.file = CorruptText, !.writes = st.writes + 1,
                                 !.res = "writeFailed", !.exc = Raised("OSError")]
    IN  [s1 EXCEPT !.saved = TRUE]

(* settings = self.marshall(); json.dumps raising skips the else branch;    *)
(* open(self._settingsFile, 'w') truncates the file before the text is      *)
(* written; the outer handler re-raises only when DEBUGGING; the finally    *)
(* clause sets _settingsSaved on every path.                                *)
(* Faulty variant of saveSettings: the flag is set only by a save that wrote *)
saveSettings_savedOnSuccess(st, io) ==
    LET jsonStr == json_dumps(marshall(st))
        Raised(e) == IF st.debugging THEN e ELSE "none"
        s0 == [st EXCEPT !.marsh = st.wins]
        s1 ==
          IF ~IsSome(st.settingsFile) THEN [st EXCEPT !.res = "noSettingsFile"]
          ELSE CASE io = "ok" ->
                      [s0 EXCEPT !.file = jsonStr, !.writes = st.writes + 1,
                                 !.res = "written"]
                 [] io = "dumpsFails" ->
                      [s0 EXCEPT !.res = "dumpsFailed", !.exc = Raised("TypeError")]
                 [] io = "openFails" ->
                      [s0 EXCEPT !.res = "writeFailed", !.exc = Raised("OSError")]
                 [] io = "writeFailsEmpty" ->
                      [s0 EXCEPT !.file = EmptyText, !.writes = st.writes + 1,
                                 !.res = "writeFailed", !.exc = Raised("OSError")]
                 [] io = "writeFailsPartial" ->
                      [s0 EXCEPT !.file = CorruptText, !.writes = st.writes + 1,
                                 !.res = "writeFailed", !.exc = Raised("OSError")]
    IN  [s1 EXCEPT !.saved = (st.saved \/ s1.res = "written")]

saveSettings(st, io) ==
    LET jsonStr == json_dumps(marshall(st))
        Raised(e) == IF st.debugging THEN e ELSE "none"
        s0 == [st EXCEPT !.marsh = st.wins]
        s1 ==
          IF ~IsSome(st.settingsFile) THEN [st EXCEPT !.res = "noSettingsFile"]
          ELSE CASE io = "ok" ->
                      [s0 EXCEPT !.file = jsonStr, !.writes = st.writes + 1,
                                 !.res = "written"]
                 [] io = "dumpsFails" ->
                      [s0 EXCEPT !.res = "dumpsFailed", !.exc = Raised("TypeError")]
                 [] io = "openFails" ->
                      [s0 EXCEPT !.res = "writeFailed", !.exc = Raised("OSError")]
                 [] io = "writeFailsEmpty" ->
                      [s0 EXCEPT !.file = EmptyText, !.writes = st.writes + 1,
                                 !.res = "writeFailed", !.exc = Raised("OSError")]
                 [] io = "writeFailsPartial" ->
                      [s0 EXCEPT !.file = CorruptText, !.writes = st.writes + 1,
                                 !.res = "writeFailed", !.exc = Raised("OSError")]
    IN  [s1 EXCEPT !.saved = TRUE]

(* Faulty variant of loadSettings: an unparsable file is read as {} *)
loadSettingsOp_ignoreCorrupt(st, copyOk) ==
    IF ~IsSome(st.settingsFile) THEN [st EXCEPT !.exc = "TypeError"]
    ELSE IF st.file = Absent THEN [st EXCEPT !.exc = "FileNotFoundError"]
    ELSE LET cfg == IF json_loadsOk(st.file) THEN json_loads(st.file) ELSE EmptyObj
             s1 == makeConfigBackup(st, cfg, copyOk)
         IN  IF s1.exc # "none" THEN s1 ELSE unmarshall(s1, cfg)

loadSettingsOp(st, copyOk) ==
    IF ~IsSome(st.settingsFile) THEN [st EXCEPT !.exc = "TypeError"]
    ELSE IF st.file = Absent THEN [st EXCEPT !.exc = "FileNotFoundError"]
    ELSE IF st.file # EmptyText /\ ~json_loadsOk(st.file)
         THEN [st EXCEPT !.exc = "JSONDecodeError"]
    ELSE LET cfg == IF st.file # EmptyText THEN json_loads(st.file) ELSE EmptyObj
             s1 == makeConfigBackup(st, cfg, copyOk)
         IN  IF s1.exc # "none" THEN s1 ELSE unmarshall(s1, cfg)

(* Faulty variants of saveSettingsIfLastWindow: the test of the window count *)
saveSettingsIfLastWindow_noWindowLeft(st, io) ==
    IF ~st.saved /\ Len(st.wins) < 1 THEN saveSettings(st, io) ELSE st

saveSettingsIfLastWindow_anyCount(st, io) ==
    IF ~st.saved THEN saveSettings(st, io) ELSE st

saveSettingsIfLastWindow(st, io) ==
    IF ~st.saved /\ Len(st.wins) <= 1 THEN saveSettings(st, io) ELSE st

(* Faulty variant of removeMainWindow: it saves the settings, as its doc    *)
(* string says.                                                             *)
removeMainWindow_andSave(st, i) ==
    saveSettings([st EXCEPT !.wins = RemoveAt(st.wins, i)], "ok")

removeMainWindow(st, i) == [st EXCEPT !.wins = RemoveAt(st.wins, i)]

(* Faulty variant of closeEvent: the window is removed before the save *)
closeEventOp_removeFirst(st, i, io) ==
    saveSettingsIfLastWindow([st EXCEPT !.wins = RemoveAt(st.wins, i)], io)

closeEventOp(st, i, io) ==
    LET s1 == saveSettingsIfLastWindow(st, io)
    IN  IF s1.exc # "none" THEN s1 ELSE removeMainWindow(s1, i)

(* QApplication.closeAllWindows(): a close event for every window *)
RECURSIVE closeAllWindows(_, _)
closeAllWindows(st, io) ==
    IF st.wins = <<>> THEN st
    ELSE LET s1 == closeEventOp(st, 1, io)
         IN  IF s1.exc # "none" THEN s1 ELSE closeAllWindows(s1, io)

(* Faulty variant of exit: the windows are closed before the settings are saved *)
exitOp_closeFirst(st, io) ==
    LET s1 == closeAllWindows(st, io)
    IN  IF s1.exc # "none" THEN s1 ELSE saveSettings(s1, io)

exitOp(st, io) ==
    LET s1 == saveSettings(st, io)
    IN  IF s1.exc # "none" THEN s1 ELSE closeAllWindows(s1, io)

----------------------------------------------------------------------------
(* Settings files found at the first start: written by an earlier session   *)
(* or version, or edited by hand.                                           *)

FullWinCfg(g, s, d) ==
    [layout |-> Some([winGeom |-> Some(b64encode(g)), winState |-> Some(b64encode(s))]),
     fileDialogDir |-> Some(d)]

GeomOnlyWinCfg(g) ==
    [layout |-> Some([winGeom |-> Some(b64encode(g)), winState |-> None]),
     fileDialogDir |-> None]

BadGeomWinCfg ==
    [layout |-> Some([winGeom |-> Some("Zz"), winState |-> Some(b64encode("s0"))]),
     fileDialogDir |-> Some("/docs")]

OneWindow == Some(<<[key |-> WinKey(0), cfg |-> FullWinCfg("g1", "s1", "/docs")]>>)

TwoWindows ==
    Some(<<[key |-> WinKey(0), cfg |-> FullWinCfg("g1", "s0", "~")],
           [key |-> WinKey(1), cfg |-> GeomOnlyWinCfg("g1")]>>)

BadKeyWindows ==
    Some(<<[key |-> WinKey(0), cfg |-> EmptyWinCfg],
           [key |-> <<"f", "o", "o">>, cfg |-> EmptyWinCfg]>>)

BadGeomWindows == Some(<<[key |-> WinKey(0), cfg |-> BadGeomWinCfg]>>)

(* A key that starts with 'win-' and has no number behind it *)
NoNumberKeyWindows == Some(<<[key |-> WinPrefix, cfg |-> FullWinCfg("g1", "s0", "/docs")]>>)

(* A recent_files list of one entry more than _maxRecentFiles *)
LongRecentFiles ==
    <<"a.docx", "b.docx", "c.docx", "d.docx", "e.docx", "f.docx",
      "g.docx", "h.docx", "i.docx", "j.docx", "k.docx">>

Obj(v, r, w) ==
    [program |-> IF IsSome(v) THEN Some(PROJECT_NAME) ELSE None,
     version |-> v, recent_files |-> r, windows |-> w]

InitFiles ==
    { Absent, EmptyText, CorruptText,
      JsonText(EmptyObj),
      JsonText(Obj(Some("0.0.1"), Some(<<"a.docx">>), OneWindow)),
      JsonText(Obj(Some(VERSION), Some(<<"a.docx">>), TwoWindows)),
      JsonText(Obj(Some(VERSION), Some(<<>>), OneWindow)),
      JsonText(Obj(None, None, OneWindow)),
      JsonText(Obj(Some("0.0.9"), Some(<<>>), Some(<<>>))),
      JsonText(Obj(Some(VERSION), None, None)),
      JsonText(Obj(Some(VERSION), Some(<<>>), BadKeyWindows)),
      JsonText(Obj(Some("0.0.1"), Some(<<>>), BadGeomWindows)),
      JsonText(Obj(Some(VERSION), Some(<<>>), NoNumberKeyWindows)),
      JsonText(Obj(Some(VERSION), Some(LongRecentFiles), OneWindow)) }

----------------------------------------------------------------------------
(* The state machine *)

St ==
    [wins |-> mainWindows, num |-> numInstances, recent |-> recentFiles,
     saved |-> settingsSaved, settingsFile |-> settingsFile, debugging |-> DEBUGGING,
     file |-> file, backups |-> backups, writes |-> writes,
     res |-> "none", marsh |-> <<>>, exc |-> "none"]

Install(s, op) ==
    /\ mainWindows' = s.wins
    /\ numInstances' = s.num
    /\ recentFiles' = s.recent
    /\ settingsSaved' = s.saved
    /\ file' = s.file
    /\ backups' = s.backups
    /\ writes' = s.writes
    /\ saveResult' = s.res
    /\ marshalled' = s.marsh
    /\ exc' = s.exc
    /\ lastOp' = op
    /\ repeatedSave' = (/\ saveResult = "written" /\ s.res = "written"
                         /\ marshalled = s.marsh /\ recentFiles = s.recent)
    /\ UNCHANGED <<args, result>>

Init ==
    /\ pc = "new"
    /\ DEBUGGING \in BOOLEAN
    /\ launches = 1
    /\ file \in InitFiles
    /\ backups = [v \in Versions |-> Absent]
    /\ mainWindows = <<>>
    /\ numInstances = 0
    /\ settingsSaved = FALSE
    /\ recentFiles = <<>>
    /\ settingsFile = None
    /\ loopExit = FALSE
    /\ exc = "none"
    /\ lastOp = "start"
    /\ saveResult = "none"
    /\ marshalled = <<>>
    /\ writes = 0
    /\ repeatedSave = FALSE
    /\ args = <<>>
    /\ result = <<>>

(* MainApp(settingsFile=None): the default settings file is created empty   *)
(* when it does not exist (userConfirmedSettingsFile, ensureFileExists).    *)
MainApp_init ==
    /\ pc = "new"
    /\ pc' = "constructed"
    /\ settingsFile' = Some(SettingsPath)
    /\ Install([St EXCEPT !.file = IF file = Absent THEN EmptyText ELSE file,
                          !.wins = <<>>, !.saved = FALSE, !.recent = <<>>],
               "MainApp_init")
    /\ UNCHANGED <<DEBUGGING, launches, loopExit>>

(* The settings file is removed by someone else before it is loaded: the    *)
(* case loadSettings tests with os.path.exists.                             *)
SettingsFileRemoved ==
    /\ pc = "constructed"
    /\ file # Absent
    /\ Install([St EXCEPT !.file = Absent], "SettingsFileRemoved")
    /\ UNCHANGED <<pc, DEBUGGING, launches, settingsFile, loopExit>>

(* startGui: mainApp.loadSettings(); an exception ends the process *)
loadSettings ==
    /\ pc = "constructed"
    /\ \E copyOk \in BOOLEAN :
         LET s == loadSettingsOp(St, copyOk)
         IN  /\ Install(s, "loadSettings")
             /\ pc' = IF s.exc = "none" THEN "running" ELSE "crashed"
    /\ UNCHANGED <<DEBUGGING, launches, settingsFile, loopExit>>

(* The user closes window i (BaseWindow.closeEvent); Qt leaves the event    *)
(* loop when the last window has closed.                                    *)
closeEvent ==
    /\ pc = "running"
    /\ \E i \in 1..Len(mainWindows), io \in IoOutcomes :
         LET s == closeEventOp(St, i, io)
         IN  /\ Install(s, "closeEvent")
             /\ pc' = IF s.exc = "none" THEN "running" ELSE "crashed"
             /\ loopExit' = (loopExit \/ (s.exc = "none" /\ s.wins = <<>>))
    /\ UNCHANGED <<DEBUGGING, launches, settingsFile>>

(* MainApp.quit / MainApp.exit(exitCode) *)
quit ==
    /\ pc = "running"
    /\ writes < MaxWrites
    /\ \E io \in IoOutcomes :
         LET s == exitOp(St, io)
         IN  /\ Install(s, "quit")
             /\ pc' = IF s.exc = "none" THEN "running" ELSE "crashed"
             /\ loopExit' = (loopExit \/ s.exc = "none")
    /\ UNCHANGED <<DEBUGGING, launches, settingsFile>>

(* MainApp.addNewMainWindow() without a config *)
newWindow ==
    /\ pc = "running"
    /\ numInstances < MaxInstances
    /\ Install(addNewMainWindow(St, None), "addNewMainWindow")
    /\ UNCHANGED <<pc, DEBUGGING, launches, settingsFile, loopExit>>

(* The user moves or resizes window i.  (The directory of the file dialog   *)
(* is left as loaded: MainWindow.openFileWithDialog is not an action.)      *)
moveWindow ==
    /\ pc = "running"
    /\ ~loopExit
    /\ \E i \in 1..Len(mainWindows), g \in Geoms :
         /\ mainWindows[i].geom # g
         /\ Install([St EXCEPT !.wins[i].geom = g], "moveWindow")
    /\ UNCHANGED <<pc, DEBUGGING, launches, settingsFile, loopExit>>

(* MainApp.execute returns and startGui calls sys.exit *)
eventLoopFinished ==
    /\ pc = "running"
    /\ loopExit
    /\ pc' = "exited"
    /\ lastOp' = "eventLoopFinished"
    /\ UNCHANGED <<DEBUGGING, launches, file, backups, mainWindows, numInstances,
                   settingsSaved, recentFiles, settingsFile, loopExit, exc,
                   saveResult, marshalled, writes, repeatedSave, args, result>>

(* The program is started again: a new process, the files stay *)
relaunch ==
    /\ pc \in {"exited", "crashed"}
    /\ launches < MaxLaunches
    /\ launches' = launches + 1
    /\ pc' = "new"
    /\ mainWindows' = <<>>
    /\ numInstances' = 0
    /\ settingsSaved' = FALSE
    /\ recentFiles' = <<>>
    /\ settingsFile' = None
    /\ loopExit' = FALSE
    /\ exc' = "none"
    /\ lastOp' = "start"
    /\ saveResult' = "none"
    /\ marshalled' = <<>>
    /\ writes' = 0
    /\ repeatedSave' = FALSE
    /\ UNCHANGED <<DEBUGGING, file, backups, args, result>>

Next ==
    \/ MainApp_init
    \/ SettingsFileRemoved
    \/ loadSettings
    \/ closeEvent
    \/ quit
    \/ newWindow
    \/ moveWindow
    \/ eventLoopFinished
    \/ relaunch

Spec == Init /\ [][Next]_vars

----------------------------------------------------------------------------
(* Sessions with many windows: the settings file was written by an earlier  *)
(* session that had n windows open, the windows past the tenth moved; the   *)
(* session loads it, quits, and the program is started again.               *)

ManyWindows(n) ==
    [i \in 1..n |-> [NewMainWindow(i - 1) EXCEPT !.geom = IF i <= 10 THEN "g0" ELSE "g1"]]

SessionFile(n) == json_dumps(marshall([wins |-> ManyWindows(n), recent |-> <<>>]))

ManyInit ==
    /\ pc = "new"
    /\ DEBUGGING \in BOOLEAN
    /\ launches = 1
    /\ file \in {SessionFile(n) : n \in 0..MaxManyWindows}
    /\ backups = [v \in Versions |-> Absent]
    /\ mainWindows = <<>>
    /\ numInstances = 0
    /\ settingsSaved = FALSE
    /\ recentFiles = <<>>
    /\ settingsFile = None
    /\ loopExit = FALSE
    /\ exc = "none"
    /\ lastOp = "start"
    /\ saveResult = "none"
    /\ marshalled = <<>>
    /\ writes = 0
    /\ repeatedSave = FALSE
    /\ args = <<>>
    /\ result = <<>>

ManyNext ==
    \/ MainApp_init
    \/ loadSettings
    \/ quit
    \/ eventLoopFinished
    \/ relaunch

ManySpec == ManyInit /\ [][ManyNext]_vars

----------------------------------------------------------------------------
(* The first start: no settings file, or an empty one; the user moves the   *)
(* window and closes it, and starts the program again.                      *)

FirstStartInit ==
    /\ pc = "new"
    /\ DEBUGGING \in BOOLEAN
    /\ launches = 1
    /\ file \in {Absent, EmptyText}
    /\ backups = [v \in Versions |-> Absent]
    /\ mainWindows = <<>>
    /\ numInstances = 0
    /\ settingsSaved = FALSE
    /\ recentFiles = <<>>
    /\ settingsFile = None
    /\ loopExit = FALSE
    /\ exc = "none"
    /\ lastOp = "start"
    /\ saveResult = "none"
    /\ marshalled = <<>>
    /\ writes = 0
    /\ repeatedSave = FALSE
    /\ args = <<>>
    /\ result = <<>>

FirstStartNext ==
    \/ MainApp_init
    \/ loadSettings
    \/ moveWindow
    \/ closeEvent
    \/ eventLoopFinished
    \/ relaunch

FirstStartSpec == FirstStartInit /\ [][FirstStartNext]_vars

----------------------------------------------------------------------------
(* MainApp(settingsFile) with any settings file argument: the default file  *)
(* or one named by the caller, which the user may decline to create.  Paths *)
(* are character strings here: userConfirmedSettingsFile tests them with    *)
(* the operator 'in'.  file is the file at the path asked for.              *)

AppConfigDirectory == <<"/", "c">>
SettingsJson == <<"s", "e", "t", "t", "i", "n", "g", "s", ".", "j", "s", "o", "n">>
OtherJson == <<"o", "t", "h", "e", "r", ".", "j", "s", "o", "n">>

(* os.path.join(directory, name) *)
join(directory, name) ==
    IF name # <<>> /\ Head(name) = "/" THEN name ELSE directory \o <<"/">> \o name

(* normRealPath of a path string: the segments '/.' are dropped *)
RECURSIVE normRealPathStr(_)
normRealPathStr(path) ==
    IF path = <<>> THEN <<>>
    ELSE IF Len(path) >= 3 /\ SubSeq(path, 1, 3) = <<"/", ".", "/">>
    THEN normRealPathStr(SubSeq(path, 3, Len(path)))
    ELSE <<Head(path)>> \o normRealPathStr(Tail(path))

defaultSettingsFile == normRealPathStr(join(AppConfigDirectory, SettingsJson))

(* a in b, for strings *)
IsSubstring(a, b) ==
    \E i \in 0..(Len(b) - Len(a)) : SubSeq(b, i + 1, i + Len(a)) = a

SettingsFileArgs ==
    { None, Some(<<>>), Some(SettingsJson), Some(defaultSettingsFile),
      Some(<<".", "/">> \o SettingsJson),
      Some(SubSeq(SettingsJson, 1, Len(SettingsJson) - 1)),
      Some(<<"s">>), Some(OtherJson) }

Buttons == {"Yes", "No"}

(* Returns the path (or None), the file at the path afterwards, and whether *)
(* the user was asked.                                                      *)
userConfirmedSettingsFile(settingsFileArg, createWithoutConfirm, f, button) ==
    LET joined == join(AppConfigDirectory, settingsFileArg)
    IN  IF f # Absent THEN [path |-> Some(joined), file |-> f, asked |-> FALSE]
        ELSE IF IsSubstring(joined, createWithoutConfirm)
        THEN [path |-> Some(normRealPathStr(joined)), file |-> EmptyText, asked |-> FALSE]
        ELSE IF button = "Yes"
        THEN [path |-> Some(normRealPathStr(joined)), file |-> EmptyText, asked |-> TRUE]
        ELSE [path |-> None, file |-> Absent, asked |-> TRUE]

CustomFileInit ==
    /\ pc = "new"
    /\ DEBUGGING \in BOOLEAN
    /\ launches = 1
    /\ file \in {Absent, EmptyText, JsonText(Obj(Some(VERSION), Some(<<>>), OneWindow))}
    /\ backups = [v \in Versions |-> Absent]
    /\ mainWindows = <<>>
    /\ numInstances = 0
    /\ settingsSaved = FALSE
    /\ recentFiles = <<>>
    /\ settingsFile = None
    /\ loopExit = FALSE
    /\ exc = "none"
    /\ lastOp = "start"
    /\ saveResult = "none"
    /\ marshalled = <<>>
    /\ writes = 0
    /\ repeatedSave = FALSE
    /\ args = <<>>
    /\ result = <<>>

(* if not settingsFile: settingsFile = MainApp.defaultSettingsFile() *)
GivenOrDefault(arg) ==
    IF arg = None \/ arg = Some(<<>>) THEN defaultSettingsFile ELSE Val(arg)

(* MainApp.__init__(settingsFile) *)
MainApp_initCustom ==
    /\ pc = "new"
    /\ \E arg \in SettingsFileArgs, button \in Buttons :
         LET r == userConfirmedSettingsFile(GivenOrDefault(arg), defaultSettingsFile,
                                            file, button)
         IN  /\ settingsFile' = r.path
             /\ file' = r.file
             /\ args' = [fn |-> "MainApp", settingsFile |-> arg, button |-> button]
             /\ result' = <<r>>
    /\ pc' = "constructed"
    /\ mainWindows' = <<>>
    /\ settingsSaved' = FALSE
    /\ recentFiles' = <<>>
    /\ exc' = "none"
    /\ lastOp' = "MainApp_init"
    /\ saveResult' = "none"
    /\ marshalled' = <<>>
    /\ repeatedSave' = FALSE
    /\ UNCHANGED <<DEBUGGING, launches, backups, numInstances, loopExit, writes>>

(* MainApp.saveSettings() called by the code that constructed the MainApp *)
saveSettings_call ==
    /\ pc = "constructed"
    /\ writes < MaxWrites
    /\ \E io \in IoOutcomes :
         LET s == saveSettings(St, io)
         IN  /\ Install(s, "saveSettings")
             /\ pc' = IF s.exc = "none" THEN "constructed" ELSE "crashed"
    /\ UNCHANGED <<DEBUGGING, launches, settingsFile, loopExit>>

CustomFileNext ==
    \/ MainApp_initCustom
    \/ saveSettings_call
    \/ loadSettings
    \/ closeEvent
    \/ newWindow
    \/ eventLoopFinished

CustomFileSpec == CustomFileInit /\ [][CustomFileNext]_vars

----------------------------------------------------------------------------
(* Methods and functions called on their own, on arguments drawn from small *)
(* sets, while no process of the application runs.                          *)

appVars == <<pc, DEBUGGING, launches, file, backups, mainWindows, numInstances,
             settingsSaved, recentFiles, settingsFile, loopExit, exc, lastOp,
             saveResult, marshalled, writes, repeatedSave>>

NoProcess ==
    /\ pc = "new"
    /\ DEBUGGING = FALSE
    /\ launches = 1
    /\ file = Absent
    /\ backups = [v \in Versions |-> Absent]
    /\ mainWindows = <<>>
    /\ numInstances = 0
    /\ settingsSaved = FALSE
    /\ recentFiles = <<>>
    /\ settingsFile = None
    /\ loopExit = FALSE
    /\ exc = "none"
    /\ lastOp = "start"
    /\ saveResult = "none"
    /\ marshalled = <<>>
    /\ writes = 0
    /\ repeatedSave = FALSE

(* MainWindow.unmarshall(cfg) on a window in any state, with any record,    *)
(* partial or complete.                                                     *)
Windows == [windowNumber : {0}, geom : Geoms, state : States, fileDialogDir : Dirs]

Layouts ==
    [winGeom : {None} \cup {Some(b64encode(g)) : g \in Geoms},
     winState : {None} \cup {Some(b64encode(st)) : st \in States}]

WinCfgs ==
    [layout : {None} \cup {Some(l) : l \in Layouts},
     fileDialogDir : {None} \cup {Some(d) : d \in Dirs}]

UnmarshallInit ==
    /\ NoProcess
    /\ args \in [fn : {"MainWindow.unmarshall"}, window : Windows, cfg : WinCfgs]
    /\ result = <<>>

MainWindow_unmarshall_call ==
    /\ args.fn = "MainWindow.unmarshall"
    /\ result = <<>>
    /\ result' = <<MainWindow_unmarshall(args.window, args.cfg)>>
    /\ UNCHANGED <<args, appVars>>

UnmarshallNext == MainWindow_unmarshall_call

UnmarshallSpec == UnmarshallInit /\ [][UnmarshallNext]_vars

----------------------------------------------------------------------------
(* Platform directories (src/wuw/utils/dirs.py).  A path is the sequence of *)
(* its components; os.path.join appends components.                         *)

homeDirectory == <<"~">>

(* os.path.normpath(os.path.realpath(path)) for a path that is not empty:   *)
(* the components '.' are dropped; the paths of the model have no links.    *)
IsNotDot(component) == component # "."
normRealPath(path) == IF path # <<>> THEN SelectSeq(path, IsNotDot) ELSE path

(* platform.system(): the three names the program knows, and others *)
SysNames == {"Darwin", "Linux", "Windows", "Java", "FreeBSD", ""}

(* An environment variable: not set, or set to a directory *)
EnvValues == {None, Some(<<"D:", "data">>), Some(<<"D:", ".", "data">>)}

Located(configDir) ==
    IF configDir = <<>> THEN [path |-> None, exc |-> "AssertionError"]
    ELSE [path |-> Some(normRealPath(configDir)), exc |-> "none"]

(* Faulty variant of baseConfigLocation: an unknown system gets ~/.config *)
baseConfigLocation_fallback(sysName, environ) ==
    IF sysName = "Darwin" THEN Located(homeDirectory \o <<"Library", "Preferences">>)
    ELSE IF sysName = "Windows"
    THEN Located(Get(environ.LOCALAPPDATA, homeDirectory \o <<"AppData", "Local">>))
    ELSE Located(homeDirectory \o <<".config">>)

baseConfigLocation(sysName, environ) ==
    IF sysName = "Darwin" THEN Located(homeDirectory \o <<"Library", "Preferences">>)
    ELSE IF sysName = "Linux" THEN Located(homeDirectory \o <<".config">>)
    ELSE IF sysName = "Windows"
    THEN Located(Get(environ.LOCALAPPDATA, homeDirectory \o <<"AppData", "Local">>))
    ELSE [path |-> None, exc |-> "AssertionError"]

baseLocalDataLocation(sysName, environ) ==
    IF sysName = "Darwin" THEN Located(homeDirectory \o <<"Library", "Application Support">>)
    ELSE IF sysName = "Linux" THEN Located(homeDirectory \o <<".local", "share">>)
    ELSE IF sysName = "Windows"
    THEN Located(Get(environ.APPLOCALDATA2, homeDirectory \o <<"AppData", "Local">>))
    ELSE [path |-> None, exc |-> "AssertionError"]

DirsInit ==
    /\ NoProcess
    /\ args \in [fn : {"baseConfigLocation", "baseLocalDataLocation"},
                  sysName : SysNames,
                  environ : [LOCALAPPDATA : EnvValues, APPLOCALDATA2 : EnvValues]]
    /\ result = <<>>

baseConfigLocation_call ==
    /\ args.fn = "baseConfigLocation"
    /\ result = <<>>
    /\ result' = <<baseConfigLocation(args.sysName, args.environ)>>
    /\ UNCHANGED <<args, appVars>>

baseLocalDataLocation_call ==
    /\ args.fn = "baseLocalDataLocation"
    /\ result = <<>>
    /\ result' = <<baseLocalDataLocation(args.sysName, args.environ)>>
    /\ UNCHANGED <<args, appVars>>

DirsNext == baseConfigLocation_call \/ baseLocalDataLocation_call

DirsSpec == DirsInit /\ [][DirsNext]_vars

----------------------------------------------------------------------------
(* DocumentTableModel (src/wuw/gui/tables.py).  A document is the sequence  *)
(* of its paragraphs; an attribute of a paragraph is None or a value.       *)

HEADERS ==
    <<"Text", "Justification", "Alignment",
      "1st line indent", "Left indent", "Right indent">>

columnCount == Len(HEADERS)

Paragraph1 ==
    [text |-> "Chapter 1", alignment |-> Some("CENTER"),
     first_line_indent |-> None, left_indent |-> None, right_indent |-> None]

Paragraph2 ==
    [text |-> "", alignment |-> None,
     first_line_indent |-> Some(457200), left_indent |-> Some(0), right_indent |-> None]

Documents == {<<>>, <<Paragraph1>>, <<Paragraph1, Paragraph2>>, <<Paragraph2, Paragraph1>>}

Roles == {"DisplayRole", "SortRole", "ToolTipRole", "TextAlignmentRole", "DecorationRole"}

(* str(value) of an alignment (an enumeration member or None) and of a length *)
StrAlignment(o) == IF o = None THEN "None" ELSE IF Val(o) = "CENTER" THEN "CENTER (1)" ELSE "LEFT (0)"
StrLength(o) == IF o = None THEN "None" ELSE ToString(Val(o))

(* The match on the column in data(), which follows its return "fna" *)
ColumnValue(paragraph, col) ==
    CASE col = 0 -> paragraph.text
      [] col = 1 -> StrAlignment(paragraph.alignment)
      [] col = 2 -> StrAlignment(paragraph.alignment)
      [] col = 3 -> StrLength(paragraph.first_line_indent)
      [] col = 4 -> StrLength(paragraph.left_indent)
      [] col = 5 -> StrLength(paragraph.right_indent)

posFromIndex(paragraphs, index) ==
    IF ~index.valid THEN None
    ELSE IF index.col < 0 \/ index.col >= columnCount THEN None
    ELSE IF index.row < 0 \/ index.row >= Len(paragraphs) THEN None
    ELSE Some(<<index.row, index.col>>)

data(paragraphs, index, role) ==
    LET pos == posFromIndex(paragraphs, index)
    IN  IF pos = None THEN None
        ELSE IF role \in {"DisplayRole", "SortRole", "ToolTipRole"} THEN Some("fna")
        ELSE IF role = "TextAlignmentRole" THEN Some("AlignVCenter|AlignLeft")
        ELSE None

TableInit ==
    /\ NoProcess
    /\ args \in [fn : {"data"}, paragraphs : Documents,
                  index : [valid : BOOLEAN, row : -1..2, col : -1..columnCount],
                  role : Roles]
    /\ result = <<>>

data_call ==
    /\ args.fn = "data"
    /\ result = <<>>
    /\ result' = <<data(args.paragraphs, args.index, args.role)>>
    /\ UNCHANGED <<args, appVars>>

TableNext == data_call

TableSpec == TableInit /\ [][TableNext]_vars

----------------------------------------------------------------------------
(* Properties *)

Max(a, b) == IF a >= b THEN a ELSE b

(* The entries of the windows mapping of a settings file *)
WindowEntries(f) == IF f.kind = "json" THEN Get(f.obj.windows, <<>>) ELSE <<>>

HasVersion(f) == f.kind = "json" /\ IsSome(f.obj.version)
HasNoVersion(f) == f = EmptyText \/ (f.kind = "json" /\ ~IsSome(f.obj.version))

(* loadSettings never writes the settings file: after it, file is what it read *)

\* C1: after a successful loadSettings in a fresh process the number of live
\* windows is max(1, n), n the number of entries of the loaded windows mapping;
\* one window when the mapping is empty or missing.
C1_WindowCountAfterLoad ==
    (lastOp = "loadSettings" /\ exc = "none")
        => Len(mainWindows) = Max(1, Len(WindowEntries(file)))

C1_Witness ==
    /\ lastOp = "loadSettings" /\ exc = "none"
    /\ file.kind = "json" /\ file.obj.windows = Some(<<>>)
    /\ Len(mainWindows) = 1

\* C2: loadSettings of a settings file that is not JSON raises to the caller:
\* no window is created, no backup is made, the settings file is not written.
C2_CorruptFileIsFatal ==
    [][(pc = "constructed" /\ lastOp' = "loadSettings" /\ file = CorruptText)
          => /\ exc' = "JSONDecodeError"
             /\ pc' = "crashed"
             /\ mainWindows' = <<>>
             /\ numInstances' = 0
             /\ backups' = backups
             /\ file' = file
             /\ writes' = 0]_vars

C2_Witness ==
    lastOp = "loadSettings" /\ file = CorruptText /\ exc = "JSONDecodeError"

\* C3 (as claimed): loadSettings with the settings file absent raises no error
\* and proceeds as with the empty record: one default window.
C3_AbsentFileOnlyWarned ==
    (lastOp = "loadSettings" /\ file = Absent)
        => (exc = "none" /\ pc = "running" /\ Len(mainWindows) = 1)

\* C4 (as claimed): in one process the settings file is written at most once,
\* whatever the sequence of quit/exit calls and close events.
C4_WrittenAtMostOnce == writes <= 1

\* C5: when the live window list is empty after startup (it emptied through
\* close events), the settings-saved flag is true.
C5_EmptyListImpliesSaved ==
    (pc \in {"running", "exited"} /\ mainWindows = <<>>) => settingsSaved

C5_Witness ==
    /\ pc = "running" /\ lastOp = "closeEvent"
    /\ mainWindows = <<>> /\ settingsSaved /\ saveResult = "written"

\* C6: when the close event of the last window saves, the save runs before the
\* window is removed: the written windows mapping holds exactly the record
\* marshalled from the closing window.
C6_SaveBeforeRemove ==
    [][(lastOp' = "closeEvent" /\ saveResult' = "written")
          => /\ Len(mainWindows) = 1
             /\ mainWindows' = <<>>
             /\ WindowEntries(file') =
                   <<[key |-> WinKey(0), cfg |-> MainWindow_marshall(mainWindows[1])]>>]_vars

C6_Witness ==
    /\ lastOp = "closeEvent" /\ saveResult = "written" /\ mainWindows = <<>>
    /\ Len(WindowEntries(file)) = 1
    /\ Val(WindowEntries(file)[1].cfg.layout).winGeom = Some(b64encode("g1"))

\* C7: a close event while two or more windows are open neither writes the
\* settings file nor sets the settings-saved flag; a close event saves only
\* when at most one window is open and the flag is false.
C7_NoSaveWhileOthersOpen ==
    [][lastOp' = "closeEvent"
          => /\ Len(mainWindows) >= 2
                   => /\ file' = file
                      /\ writes' = writes
                      /\ saveResult' = "none"
                      /\ settingsSaved' = settingsSaved
             /\ (saveResult' # "none" \/ writes' # writes)
                   => (Len(mainWindows) <= 1 /\ ~settingsSaved)]_vars

C7_Witness ==
    /\ lastOp = "closeEvent" /\ pc = "running"
    /\ Len(mainWindows) >= 1 /\ ~settingsSaved /\ writes = 0

\* C8 (as claimed): in every file written, each open window is keyed win-<N>
\* with N the instance number the window got when it was created.
C8_KeysAreInstanceNumbers ==
    saveResult = "written"
        => /\ Len(WindowEntries(file)) = Len(marshalled)
           /\ \A i \in 1..Len(marshalled) :
                 \E j \in 1..Len(WindowEntries(file)) :
                    WindowEntries(file)[j] =
                       [key |-> WinKey(marshalled[i].windowNumber),
                        cfg |-> MainWindow_marshall(marshalled[i])]

\* C8 (amended): in every file written, each open window is keyed win-<i> with
\* i its position, from 0, in the live window list at the time of the save.
C8_KeysArePositions ==
    saveResult = "written"
        => /\ Len(WindowEntries(file)) = Len(marshalled)
           /\ \A i \in 1..Len(marshalled) :
                 \E j \in 1..Len(WindowEntries(file)) :
                    WindowEntries(file)[j] =
                       [key |-> WinKey(i - 1),
                        cfg |-> MainWindow_marshall(marshalled[i])]

C8_Witness ==
    /\ saveResult = "written"
    /\ Len(marshalled) = 1 /\ marshalled[1].windowNumber = 1
    /\ WindowEntries(file)[1].key = WinKey(0)

\* C9: when the loaded record's _version differs from the running version,
\* loadSettings copies the settings file, as it was before the load, to
\* <path>.v<oldVersion>.backup before any window is created or in-memory state
\* is changed; when the versions are equal no backup is created.
C9_BackupOnVersionChange ==
    [][(pc = "constructed" /\ lastOp' = "loadSettings" /\ HasVersion(file))
          => LET v == Val(file.obj.version)
             IN  /\ file' = file
                 /\ v = VERSION => (backups' = backups /\ exc' # "OSError")
                 /\ (v # VERSION /\ exc' # "OSError")
                       => backups' = [backups EXCEPT ![v] = file]
                 /\ exc' = "OSError"
                       => /\ backups' = backups
                          /\ mainWindows' = <<>>
                          /\ numInstances' = 0
                          /\ recentFiles' = recentFiles]_vars

C9_Witness ==
    /\ lastOp = "loadSettings" /\ exc = "none"
    /\ HasVersion(file) /\ file.obj.version = Some("0.0.1")
    /\ backups["0.0.1"] = file
    /\ Len(mainWindows) = 1

\* C10 (as claimed): every successfully loaded record without _version,
\* the empty record of an empty settings file included, is taken to be of
\* version "0.0.1" in the version comparison and in the backup file name
\* (so that it is backed up as <path>.v0.0.1.backup).
C10_DefaultVersionForAll ==
    (lastOp = "loadSettings" /\ exc = "none" /\ HasNoVersion(file))
        => backups["0.0.1"] = file

\* C10 (amended): a loaded record without _version that is not empty is taken
\* to be of version "0.0.1" in the version comparison and in the backup file
\* name; for the empty record (an empty file, or {}) no version is compared
\* and no backup is made.
C10_DefaultVersionForNonEmpty ==
    [][(pc = "constructed" /\ lastOp' = "loadSettings" /\ exc' # "OSError"
           /\ HasNoVersion(file))
          => IF file.kind = "json" /\ Truthy(file.obj)
             THEN backups' = [backups EXCEPT !["0.0.1"] = file]
             ELSE backups' = backups]_vars

C10_Witness ==
    /\ lastOp = "loadSettings" /\ exc = "none"
    /\ file.kind = "json" /\ Truthy(file.obj) /\ ~IsSome(file.obj.version)
    /\ backups["0.0.1"] = file

\* C11: with DEBUGGING off no error of saveSettings reaches the caller, be it
\* raised by json.dumps, by open or by write: the close event or quit that
\* saved goes on; with DEBUGGING on the error raised is the one the caller gets.
C11_SaveErrorSwallowedUnlessDebug ==
    [][(lastOp' \in {"closeEvent", "quit"}
           /\ saveResult' \in {"dumpsFailed", "writeFailed"})
          => /\ ~DEBUGGING => (exc' = "none" /\ pc' = "running")
             /\ DEBUGGING
                   => /\ pc' = "crashed"
                      /\ exc' = IF saveResult' = "dumpsFailed"
                                THEN "TypeError" ELSE "OSError"]_vars

C11_Witness ==
    /\ DEBUGGING /\ lastOp = "closeEvent"
    /\ saveResult = "writeFailed" /\ exc = "OSError" /\ pc = "crashed"

(* A settings file as saveSettings writes it for one window or more: keys   *)
(* win-0 .. win-(n-1), every window record complete and decodable.          *)
ValidSavedFile(f) ==
    /\ f.kind = "json"
    /\ IsSome(f.obj.recent_files)
    /\ IsSome(f.obj.windows)
    /\ LET entries == Val(f.obj.windows)
       IN  /\ Len(entries) >= 1
           /\ {entries[i].key : i \in 1..Len(entries)}
                 = {WinKey(i - 1) : i \in 1..Len(entries)}
           /\ \A i \in 1..Len(entries) :
                 /\ IsSome(entries[i].cfg.fileDialogDir)
                 /\ IsSome(entries[i].cfg.layout)
                 /\ LET layoutCfg == Val(entries[i].cfg.layout)
                    IN  /\ IsSome(layoutCfg.winGeom) /\ IsSome(layoutCfg.winState)
                        /\ b64decodeOk(Val(layoutCfg.winGeom))
                        /\ b64decodeOk(Val(layoutCfg.winState))

\* C12 (as claimed): after loadSettings of a file that saveSettings wrote (a
\* valid windows mapping and recent-files list), the record marshalled from the
\* loaded state equals the file's record in recent_files and in the windows
\* mapping: the same keys with the same layout blobs and fileDialogDir.
C12_SaveLoadRoundTrip ==
    (lastOp = "loadSettings" /\ exc = "none" /\ ValidSavedFile(file))
        => LET again == json_dumps(marshall(St)).obj
           IN  /\ again.recent_files = file.obj.recent_files
               /\ again.windows = file.obj.windows

MatchesWinPattern(key) ==
    /\ StartsWith(key, WinPrefix)
    /\ Len(key) > Len(WinPrefix)
    /\ \A i \in (Len(WinPrefix) + 1)..Len(key) :
          \E d \in 1..Len(DigitChars) : key[i] = DigitChars[d]

HasKeyOffPattern(f) ==
    \E i \in 1..Len(WindowEntries(f)) : ~MatchesWinPattern(WindowEntries(f)[i].key)

\* C14 (as claimed): loadSettings of a file whose windows mapping has a key
\* that is not win-<N>, N a non-negative integer, fails: an error reaches the
\* caller and the process ends; this includes a key that starts with 'win-'
\* and has no number behind it.
C14_KeyOffPatternIsFatal ==
    (lastOp = "loadSettings" /\ HasKeyOffPattern(file))
        => (exc # "none" /\ pc = "crashed")

\* C15 (as claimed): in every reachable state the recent-files list in memory
\* has at most _maxRecentFiles (10) entries, also directly after loadSettings
\* read a recent_files list of any length.
C15_RecentFilesBounded == Len(recentFiles) <= maxRecentFiles

(* One of the layout blobs of a window record of the file is not base64 *)
HasBadBlob(f) ==
    \E i \in 1..Len(WindowEntries(f)) :
       LET layoutCfg == Get(WindowEntries(f)[i].cfg.layout, EmptyLayout)
       IN  \/ IsSome(layoutCfg.winGeom) /\ ~b64decodeOk(Val(layoutCfg.winGeom))
           \/ IsSome(layoutCfg.winState) /\ ~b64decodeOk(Val(layoutCfg.winState))

\* C16 (as claimed): a layout blob that is not base64 does not abort
\* loadSettings: unless the load failed before any window record was read
\* (the backup copy), it returns normally with one window per window record,
\* each with the fileDialogDir of its record.
C16_BadBlobIsSkipped ==
    (lastOp = "loadSettings" /\ HasBadBlob(file) /\ ~HasKeyOffPattern(file)
        /\ exc # "OSError")
        => /\ exc = "none"
           /\ pc = "running"
           /\ Len(mainWindows) = Len(WindowEntries(file))
           /\ \A i \in 1..Len(mainWindows) :
                 mainWindows[i].fileDialogDir =
                    Get(WindowEntries(file)[i].cfg.fileDialogDir, DEFAULT_FILE_DIR)

\* C17 (as claimed): after every operation that calls saveSettings, also when
\* opening or writing the file fails midway, the settings file holds either
\* what it held before or the complete serialization of the state saved;
\* never an empty or a partial text.
C17_SaveIsAtomic ==
    [][lastOp' \in {"closeEvent", "quit"}
          => (file' = file \/ file' = json_dumps(marshall(St)))]_vars

\* C18 (as claimed): when loadSettings fails (a file that is not JSON, a
\* window key off the pattern, a blob that cannot be decoded), the in-memory
\* state is what it was before the call: no window was added to the live list
\* and the recent-files list is unchanged.
C18_FailedLoadChangesNothing ==
    [][(lastOp' = "loadSettings" /\ exc' # "none")
          => (mainWindows' = mainWindows /\ recentFiles' = recentFiles)]_vars

\* C19: when json.dumps fails on the record, saveSettings does not open the
\* settings file: its content is what it was before the call and the file was
\* not opened for writing.
C19_NoWriteWhenDumpsFails ==
    [][(lastOp' \in {"closeEvent", "quit"} /\ saveResult' = "dumpsFailed")
          => (file' = file /\ writes' = writes)]_vars

C19_Witness ==
    /\ lastOp = "closeEvent" /\ saveResult = "dumpsFailed"
    /\ ValidSavedFile(file) /\ writes = 0 /\ mainWindows = <<>>

\* C20: starting with the settings file absent or empty, loadSettings creates
\* exactly one window; the close event of that window, when it writes, writes
\* a file whose windows mapping is exactly {win-0: the record of the window}
\* and whose recent_files is []; loadSettings of the process started next
\* restores from that file exactly one window, with the geometry saved.
C20_FirstStartScenario ==
    [][/\ (lastOp' = "loadSettings" /\ (launches = 1 \/ file = EmptyText))
            => (exc' = "none" /\ Len(mainWindows') = 1)
       /\ (lastOp' = "closeEvent" /\ saveResult' = "written")
            => /\ WindowEntries(file') =
                     <<[key |-> WinKey(0), cfg |-> MainWindow_marshall(mainWindows[1])]>>
               /\ file'.obj.recent_files = Some(<<>>)
       /\ (lastOp' = "loadSettings" /\ launches > 1 /\ file.kind = "json")
            => /\ exc' = "none"
               /\ Len(mainWindows') = 1
               /\ Some(b64encode(mainWindows'[1].geom)) =
                     Val(WindowEntries(file)[1].cfg.layout).winGeom]_vars

C20_Witness ==
    /\ launches = 2 /\ lastOp = "loadSettings" /\ exc = "none"
    /\ WindowEntries(file) =
          <<[key |-> WinKey(0), cfg |-> FullWinCfg("g1", "s0", "~")]>>
    /\ file.obj.recent_files = Some(<<>>)
    /\ Len(mainWindows) = 1 /\ mainWindows[1].geom = "g1"

(* The window numbers of a window list *)
WindowNumbers(wins) == {wins[i].windowNumber : i \in 1..Len(wins)}

\* C21: the first window of a process gets number 0; every window that an
\* operation adds gets a number that is at least the count of the windows
\* constructed before, hence greater than every number given earlier, also
\* when windows were removed in between; the numbers of the live windows
\* grow along the list, so no two windows share one.
C21_WindowNumbersIncrease ==
    [][/\ pc = "constructed" => numInstances = 0
       /\ \A j \in 1..Len(mainWindows') :
             mainWindows'[j].windowNumber \notin WindowNumbers(mainWindows)
                => /\ mainWindows'[j].windowNumber >= numInstances
                   /\ mainWindows'[j].windowNumber < numInstances'
       /\ \A i, j \in 1..Len(mainWindows') :
             i < j => mainWindows'[i].windowNumber < mainWindows'[j].windowNumber
       /\ numInstances' >= numInstances \/ lastOp' = "start"]_vars

C21_Witness ==
    /\ lastOp = "addNewMainWindow" /\ numInstances = 2
    /\ Len(mainWindows) = 1 /\ mainWindows[1].windowNumber = 1

\* C22 (as claimed): MainWindow.unmarshall(cfg) restores only the fields the
\* record has: when winGeom, winState or fileDialogDir is absent from the
\* record, the window's geometry, state or last-used directory is what it was
\* before the call.
C22_AbsentFieldsKept ==
    (result # <<>> /\ args.fn = "MainWindow.unmarshall")
        => LET layoutCfg == Get(args.cfg.layout, EmptyLayout)
               after == result[1].win
           IN  /\ result[1].exc = "none"
               /\ ~IsSome(layoutCfg.winGeom) => after.geom = args.window.geom
               /\ ~IsSome(layoutCfg.winState) => after.state = args.window.state
               /\ ~IsSome(args.cfg.fileDialogDir)
                     => after.fileDialogDir = args.window.fileDialogDir

C25_DataShowsParagraphAttribute ==
    (/\ result # <<>> /\ args.fn = "data" /\ args.role = "DisplayRole"
     /\ args.index.valid
     /\ args.index.row >= 0 /\ args.index.row < Len(args.paragraphs)
     /\ args.index.col >= 0 /\ args.index.col < columnCount)
        => result[1] =
              Some(ColumnValue(args.paragraphs[args.index.row + 1], args.index.col))

\* C26 (as claimed): MainApp(settingsFile) with the file missing creates it
\* without asking the user only when the resolved path is that of the default
\* settings file; for every other path the file is created when the user
\* answers Yes, and otherwise no file is created and the settings file of the
\* application is None.
C26_CreatedUnaskedOnlyForDefault ==
    [][(lastOp' = "MainApp_init" /\ file = Absent)
          => LET resolved ==
                    normRealPathStr(join(AppConfigDirectory,
                                         GivenOrDefault(args'.settingsFile)))
             IN  /\ (~result'[1].asked /\ file' # Absent)
                       => resolved = defaultSettingsFile
                 /\ resolved # defaultSettingsFile
                       => IF args'.button = "Yes"
                          THEN file' = EmptyText /\ settingsFile' = Some(resolved)
                          ELSE file' = Absent /\ settingsFile' = None]_vars

\* C27: quit()/exit() saves before it closes any window: the file it writes
\* is the serialization of the state at the call, with one windows entry per
\* window then open; the close events of those windows that follow write
\* nothing more (the file was opened for writing once), and leave no window.
C27_QuitSavesBeforeClosing ==
    [][(lastOp' = "quit" /\ saveResult' = "written")
          => /\ file' = json_dumps(marshall(St))
             /\ Len(WindowEntries(file')) = Len(mainWindows)
             /\ \A i \in 1..Len(mainWindows) :
                   \E j \in 1..Len(WindowEntries(file')) :
                      WindowEntries(file')[j] =
                         [key |-> WinKey(i - 1), cfg |-> MainWindow_marshall(mainWindows[i])]
             /\ writes' = writes + 1
             /\ mainWindows' = <<>>]_vars

C27_Witness ==
    /\ lastOp = "quit" /\ saveResult = "written" /\ writes = 1
    /\ mainWindows = <<>> /\ Len(marshalled) = 2
    /\ Len(WindowEntries(file)) = 2

\* C28: every call of saveSettings, whether it wrote, failed or was skipped
\* for want of a settings file, leaves the already-saved flag true; no
\* operation of the running application sets the flag back to false; and a
\* close event that finds the flag true writes nothing, so a failed save is
\* not retried when the last window closes.
C28_SavedFlagSetAndKept ==
    [][/\ (lastOp' \in {"saveSettings", "closeEvent"} /\ saveResult' # "none")
           => settingsSaved'
       /\ settingsSaved => settingsSaved'
       /\ (lastOp' = "closeEvent" /\ settingsSaved)
           => (file' = file /\ writes' = writes /\ saveResult' = "none")]_vars

C28_Witness ==
    /\ lastOp = "closeEvent" /\ mainWindows = <<>> /\ exc = "none"
    /\ IsSome(settingsFile) /\ settingsSaved
    /\ writes = 0 /\ saveResult = "none"

\* C29 (as claimed): after loadSettings of a file that saveSettings wrote, for
\* any number of windows, the i-th window of the list is the one restored from
\* the record that was marshalled from the i-th window of the saved session,
\* that is from the entry with key win-<i-1>.
C29_WindowOrderPreserved ==
    (lastOp = "loadSettings" /\ exc = "none" /\ ValidSavedFile(file))
        => /\ Len(mainWindows) = Len(WindowEntries(file))
           /\ \A i \in 1..Len(mainWindows) :
                 \A j \in 1..Len(WindowEntries(file)) :
                    WindowEntries(file)[j].key = WinKey(i - 1)
                       => MainWindow_marshall(mainWindows[i]) = WindowEntries(file)[j].cfg

\* C30 (as claimed): when the user declined to create the settings file, so
\* that the application has no settings file, loadSettings completes without
\* error and leaves one default window, and the file is not written.
C30_StartsWithoutSettingsFile ==
    [][(lastOp' = "loadSettings" /\ settingsFile = None)
          => /\ exc' = "none" /\ pc' = "running"
             /\ mainWindows' = <<NewMainWindow(numInstances)>>
             /\ file' = file /\ writes' = writes]_vars

====
